---- MODULE Spec2Model ----
(***************************************************************************)
(* Media ingestion pipeline of the gallery controller:                     *)
(*   createGalleryItem        one staged file per request                  *)
(*   bulkUploadGalleryItems   many staged files, processFile per file      *)
(* together with the helpers extractMetadata and generateThumbnail and the *)
(* storage gateway uploadToCloudinary.  Every await of the source is a     *)
(* point where another run may be scheduled; the code between two awaits   *)
(* runs atomically (single-threaded event loop).                           *)
(***************************************************************************)
EXTENDS Integers, Sequences, FiniteSets, TLC

(* ---------------------------- bounds ----------------------------------- *)
\* largest number of files in one bulk request
MaxFiles == 6
\* number of concurrent createGalleryItem requests
NumRequests == 2
\* largest value of the millisecond clock read by Date.now()
MaxClock == 1

(* ------------------------ program constants ---------------------------- *)
concurrencyLimit == 5
maxSize == 5242880

(* ----------------------------- values ---------------------------------- *)
\* JavaScript null / undefined, and paths, are tuples so that they compare
Null == <<"null">>
Undefined == <<"undefined">>
StagedPath(r) == <<"uploads", r>>
ThumbPath(t) == <<"tmp", "thumb", t>>
ShotPath == <<"tmp", "thumbnail-1">>
Falsy(v) == v = Null \/ v = Undefined

RunIds == 1..(IF MaxFiles > NumRequests THEN MaxFiles ELSE NumRequests)

(* the declared type "a/b" is the pair <<a, b>> *)
ImageTokens == {"jpeg", "jpg", "png", "webp", "gif"}
allowedTypes == {<<"image", "jpeg">>, <<"image", "png">>, <<"image", "webp">>, <<"image", "gif">>}

\* multer fileFilter: the extension and the declared type must both contain
\* one of the image tokens; the part before the slash is not looked at
imageFilter(f) == f.ext \in ImageTokens /\ f.mimetype[2] \in ImageTokens

(* A staged file: what the client declared and how the external tools     *)
(* (sharp, exifr, ffprobe, ffmpeg) answer on its content.                  *)
\*   decodes  sharp reads the header and can resize
\*   exif     "ok" | "none" (exifr.parse gives undefined) | "corrupt" (rejects)
\*   probe    "video" | "noVideo" (no video stream) | "error" (ffprobe rejects)
\*            | "hang" (ffprobe never calls back)
\*   frame    ffmpeg can extract the frame at 10%
FileKinds == <<
  [mimetype |-> <<"image", "jpeg">>, ext |-> "jpg", decodes |-> TRUE,  exif |-> "ok",      probe |-> "error",   frame |-> FALSE],
  [mimetype |-> <<"video", "gif">>,  ext |-> "gif", decodes |-> FALSE, exif |-> "none",    probe |-> "video",   frame |-> TRUE],
  [mimetype |-> <<"image", "png">>,  ext |-> "png", decodes |-> FALSE, exif |-> "none",    probe |-> "error",   frame |-> FALSE],
  [mimetype |-> <<"image", "jpeg">>, ext |-> "jpg", decodes |-> TRUE,  exif |-> "corrupt", probe |-> "error",   frame |-> FALSE],
  [mimetype |-> <<"application", "gif">>, ext |-> "gif", decodes |-> TRUE, exif |-> "none", probe |-> "error",  frame |-> FALSE],
  [mimetype |-> <<"video", "gif">>,  ext |-> "gif", decodes |-> FALSE, exif |-> "none",    probe |-> "noVideo", frame |-> FALSE],
  [mimetype |-> <<"video", "gif">>,  ext |-> "gif", decodes |-> FALSE, exif |-> "none",    probe |-> "hang",    frame |-> FALSE]
>>
NumKinds == Len(FileKinds)
NoFile == [mimetype |-> <<"", "">>, ext |-> "", decodes |-> FALSE, exif |-> "none", probe |-> "error", frame |-> FALSE]

VARIABLES
  mode,           \* "create" | "bulk": which handler the requests go to
  now,            \* Date.now()
  disk,           \* paths that exist on the local disk
  files,          \* files[r]: the staged file of run r (req.file / req.files[r-1])
  nFiles,         \* req.files.length
  run,            \* run[r]: locals of the createGalleryItem / processFile call
  i,              \* loop variable of bulkUploadGalleryItems
  bulkPc,         \* position of bulkUploadGalleryItems
  uploadedItems,  \* the array uploadedItems
  db,             \* GalleryItem collection
  cloud,          \* objects held by the storage provider
  providerUp,     \* whether the provider accepts uploads
  response,       \* response of the bulk request
  calls,          \* calls[c]: the deleteFromCloudinary call of caller c
  del,            \* del[q]: locals of a deleteGalleryItem call / of one deletePromises callback
  ids,            \* req.body.ids of deleteMultipleGalleryItems
  manyPc,         \* position of deleteMultipleGalleryItems
  manyResponse,   \* status of its response
  cancelled,      \* the client of the bulk request has gone away (req 'close')
  upd,            \* upd[q]: locals of an updateGalleryItem / updateArticle call
  proj,           \* locals of the deleteProject call and its background task
  mw              \* mw[q]: what handleUploadError did for request q

ingestVars == <<mode, now, disk, files, nFiles, run, i, bulkPc, uploadedItems, db, cloud, providerUp, response>>
deleteVars == <<calls, del, ids, manyPc, manyResponse>>
restVars == <<cancelled, upd, proj, mw>>
vars == <<ingestVars, deleteVars, restVars>>

(* ------------------------- pure helpers -------------------------------- *)
\* file.mimetype.split('/')[0]; anything that is not 'image' becomes 'video'
fileTypeOf(f) == f.mimetype[1]
mediaTypeOf(f) == IF fileTypeOf(f) = "image" THEN "image" ELSE "video"

\* the try block of extractMetadata: the populated fields, or a throw
extractMetadataTry(f, mediaType, exists) ==
  IF mediaType = "image"
  THEN IF ~(f.decodes /\ exists) THEN [threw |-> TRUE, value |-> {}]
       ELSE IF f.exif = "corrupt" THEN [threw |-> TRUE, value |-> {}]
       ELSE [threw |-> FALSE,
             value |-> {"width", "height", "format", "size", "aspectRatio"}
                       \cup (IF f.exif = "ok" THEN {"exif"} ELSE {})]
  ELSE IF f.probe = "error" THEN [threw |-> TRUE, value |-> {}]
       ELSE IF f.probe = "noVideo" THEN [threw |-> FALSE, value |-> {}]
       ELSE IF ~exists THEN [threw |-> TRUE, value |-> {}]
       ELSE [threw |-> FALSE,
             value |-> {"width", "height", "duration", "format", "size", "aspectRatio"}]

\* extractMetadata without its catch: the throw reaches the caller
extractMetadataRethrows(f, mediaType, exists) == extractMetadataTry(f, mediaType, exists)

\* extractMetadata: the catch turns every throw into an empty object
extractMetadata(f, mediaType, exists) ==
  LET t == extractMetadataTry(f, mediaType, exists)
  IN  IF t.threw THEN [threw |-> FALSE, value |-> {}] ELSE t

(* The argument of uploadToCloudinary.  The function reads file.size,      *)
(* file.mimetype and file.path; a string has none of these properties.     *)
StringArg(p) == [shape |-> "string", str |-> p, path |-> Undefined, size |-> 0, mimetype |-> Undefined]
FileArg(p, sz, mt) == [shape |-> "file", str |-> Undefined, path |-> p, size |-> sz, mimetype |-> mt]

\* uploadToCloudinary before its first await: the three checks
uploadValidate(file) ==
  IF file.shape = "none" THEN "No file provided"
  ELSE IF file.shape = "file" /\ file.size > maxSize THEN "File size exceeds 5MB limit"
  ELSE IF ~(file.shape = "file" /\ file.mimetype \in allowedTypes) THEN "Invalid file type"
  ELSE "ok"

\* uploadToCloudinary after the provider call settles: on success the
\* function unlinks file.path and returns the ids; on failure the catch
\* unlinks file.path if it exists and throws
uploadSettle(file, folder, up, onDisk) ==
  IF up /\ file.path \in onDisk
  THEN [ok |-> TRUE, unlinked |-> {file.path},
        public_id |-> <<folder, file.path>>, secure_url |-> <<"https", folder, file.path>>]
  ELSE [ok |-> FALSE, unlinked |-> {file.path} \cap onDisk,
        public_id |-> Null, secure_url |-> Null]

\* a slice one file too wide
ChunkTooWide(k) == {r \in 1..nFiles : k < r /\ r <= k + concurrencyLimit + 1}

\* req.files.slice(i, i + concurrencyLimit), as run ids (index + 1)
Chunk(k) == {r \in 1..nFiles : k < r /\ r <= k + concurrencyLimit}

InitRun == [pc |-> "idle", mediaType |-> "", metadata |-> {}, tp |-> Null,
            thumbnailPath |-> Null, thumbnailUrl |-> Null, url |-> Null,
            thumbUpload |-> "none", mainUpload |-> "none",
            stagedUnlinks |-> 0,
            outcome |-> "none", failedAt |-> "none"]

\* the synchronous head of createGalleryItem / processFile: the media type
\* is fixed and extractMetadata is awaited
Started(r) == [InitRun EXCEPT !.pc = "extract", !.mediaType = mediaTypeOf(files[r])]

(* ------------------- one ingestion run, step by step ------------------- *)
\* a failure path that also pushes an entry onto uploadedItems
ThrowAndPush(r, h, rec, stage) ==
  /\ run' = [run EXCEPT ![r] = [rec EXCEPT !.pc = "done", !.tp = Null, !.failedAt = stage,
                                           !.outcome = IF h = "bulk" THEN "null" ELSE "error"]]
  /\ uploadedItems' = IF h = "bulk" THEN Append(uploadedItems, Null) ELSE uploadedItems
  /\ UNCHANGED db

\* h is the handler the run belongs to: "create" (createGalleryItem, whose
\* throw goes to catchAsync -> next(err)) or "bulk" (processFile, whose
\* catch logs and returns null)
Throw(r, h, rec, stage) ==
  /\ run' = [run EXCEPT ![r] = [rec EXCEPT !.pc = "done", !.tp = Null, !.failedAt = stage,
                                           !.outcome = IF h = "bulk" THEN "null" ELSE "error"]]
  /\ UNCHANGED <<uploadedItems, db>>

\* the original's rejected upload swallowed: the run goes on to persist
uploadMainSwallowed(r, h, rec) ==
  /\ run' = [run EXCEPT ![r] = [rec EXCEPT !.mainUpload = "failed", !.pc = "create"]]
  /\ UNCHANGED <<uploadedItems, db>>

\* the original's upload was rejected: the run throws
uploadMainRejected(r, h, rec) ==
  Throw(r, h, [rec EXCEPT !.mainUpload = "failed"], "upload-original")

\* the thumbnail's upload was rejected: nothing catches it, the run throws
uploadThumbRejected(r, h, rec) ==
  Throw(r, h, [rec EXCEPT !.thumbUpload = "failed"], "upload-thumbnail")

\* uploadToCloudinary(file.path, 'gallery') is called
StartUploadMain(r, h, rec) ==
  IF uploadValidate(StringArg(StagedPath(r))) = "ok"
  THEN /\ run' = [run EXCEPT ![r] = [rec EXCEPT !.pc = "upMain"]]
       /\ UNCHANGED <<uploadedItems, db>>
  ELSE uploadMainRejected(r, h, rec)

\* generateThumbnail returned path (or null): if (thumbnailPath) upload it,
\* else go on to the original
AfterThumbnail(r, h, rec, path) ==
  LET rec2 == [rec EXCEPT !.tp = Null, !.thumbnailPath = path]
  IN  IF path # Null
      THEN IF uploadValidate(StringArg(path)) = "ok"
           THEN /\ run' = [run EXCEPT ![r] = [rec2 EXCEPT !.pc = "upThumb"]]
                /\ UNCHANGED <<uploadedItems, db>>
           ELSE uploadThumbRejected(r, h, rec2)
      ELSE StartUploadMain(r, h, rec2)

\* extractMetadata settled; generateThumbnail picks its path and starts
StepExtract(r, h) ==
  LET m == extractMetadata(files[r], run[r].mediaType, StagedPath(r) \in disk)
  IN  /\ IF m.threw
         THEN Throw(r, h, run[r], "inspect")
         ELSE /\ run' = [run EXCEPT ![r] = [@ EXCEPT !.metadata = m.value, !.tp = ThumbPath(now),
                            !.pc = IF run[r].mediaType = "image" THEN "thumb" ELSE "shot"]]
              /\ UNCHANGED <<uploadedItems, db>>
      /\ UNCHANGED <<disk, cloud>>

\* image: sharp(...).toFile(thumbnailPath) settled
StepThumb(r, h) ==
  IF files[r].decodes /\ StagedPath(r) \in disk
  THEN /\ disk' = disk \cup {run[r].tp}
       /\ AfterThumbnail(r, h, run[r], run[r].tp)
       /\ UNCHANGED cloud
  ELSE /\ AfterThumbnail(r, h, run[r], Null)
       /\ UNCHANGED <<disk, cloud>>

\* video: ffmpeg wrote /tmp/thumbnail-1.jpg ('end') or failed ('error')
StepShot(r, h) ==
  IF files[r].frame /\ StagedPath(r) \in disk
  THEN /\ disk' = disk \cup {ShotPath}
       /\ run' = [run EXCEPT ![r].pc = "rename"]
       /\ UNCHANGED <<uploadedItems, db, cloud>>
  ELSE /\ AfterThumbnail(r, h, run[r], Null)
       /\ UNCHANGED <<disk, cloud>>

\* a rename that moves the staged file itself to the thumbnail path
StepRenameStaged(r, h) ==
  /\ disk' = (disk \ {StagedPath(r)}) \cup {run[r].tp}
  /\ AfterThumbnail(r, h, run[r], run[r].tp)
  /\ UNCHANGED cloud

\* video: fs.rename('/tmp/thumbnail-1.jpg', thumbnailPath) settled
StepRename(r, h) ==
  IF ShotPath \in disk
  THEN /\ disk' = (disk \ {ShotPath}) \cup {run[r].tp}
       /\ AfterThumbnail(r, h, run[r], run[r].tp)
       /\ UNCHANGED cloud
  ELSE /\ AfterThumbnail(r, h, run[r], Null)
       /\ UNCHANGED <<disk, cloud>>

\* the provider answered the thumbnail upload
StepUpThumb(r, h) ==
  LET res == uploadSettle(StringArg(run[r].thumbnailPath), "gallery/thumbnails", providerUp, disk)
  IN  /\ disk' = disk \ res.unlinked
      /\ IF res.ok
         THEN /\ run' = [run EXCEPT ![r] = [@ EXCEPT !.thumbnailUrl = res.secure_url,
                                                     !.thumbUpload = "ok", !.pc = "unlinkThumb"]]
              /\ cloud' = cloud \cup {res.public_id}
              /\ UNCHANGED <<uploadedItems, db>>
         ELSE /\ uploadThumbRejected(r, h, run[r])
              /\ UNCHANGED cloud

\* fs.unlink(thumbnailPath).catch(console.error) settled
StepUnlinkThumb(r, h) ==
  /\ disk' = disk \ {run[r].thumbnailPath}
  /\ StartUploadMain(r, h, run[r])
  /\ UNCHANGED cloud

\* the provider answered the original's upload; GalleryItem.create starts
StepUpMain(r, h) ==
  LET res == uploadSettle(StringArg(StagedPath(r)), "gallery", providerUp, disk)
  IN  /\ disk' = disk \ res.unlinked
      /\ IF res.ok
         THEN /\ run' = [run EXCEPT ![r] = [@ EXCEPT !.url = res.secure_url,
                                 !.stagedUnlinks = @ + Cardinality(res.unlinked \cap {StagedPath(r)}),
                                 !.mainUpload = "ok", !.pc = "create"]]
              /\ cloud' = cloud \cup {res.public_id}
              /\ UNCHANGED <<uploadedItems, db>>
         ELSE /\ uploadMainRejected(r, h, run[r])
              /\ UNCHANGED cloud

\* the document GalleryItem.create is given
MakeItem(file, mediaType, url, thumbnailUrl, metadata) ==
  [file |-> file, mediaType |-> mediaType, url |-> url,
   thumbnailUrl |-> thumbnailUrl, metadata |-> metadata]

ItemOf(r) == MakeItem(r, run[r].mediaType, run[r].url, run[r].thumbnailUrl, run[r].metadata)

\* GalleryItem.create settled; processFile pushes the item; the staged
\* file's unlink starts
StepCreate(r, h) ==
  /\ \E saved \in BOOLEAN :
       IF saved
       THEN /\ db' = db \cup {ItemOf(r)}
            /\ uploadedItems' = IF h = "bulk" THEN Append(uploadedItems, ItemOf(r)) ELSE uploadedItems
            /\ run' = [run EXCEPT ![r].pc = "unlinkMain"]
       ELSE Throw(r, h, run[r], "persist")
  /\ UNCHANGED <<disk, cloud>>

\* fs.unlink(file.path).catch(console.error) settled; the run returns
StepUnlinkMain(r, h) ==
  /\ disk' = disk \ {StagedPath(r)}
  /\ run' = [run EXCEPT ![r] = [@ EXCEPT !.pc = "done", !.outcome = "record",
                                          !.stagedUnlinks = @ + 1]]
  /\ UNCHANGED <<uploadedItems, db, cloud>>

\* the run resumes after the await it is suspended at
\* the promise around ffmpeg.ffprobe settles only from the callback
ProbePending(r) ==
  run[r].pc = "extract" /\ run[r].mediaType = "video" /\ files[r].probe = "hang"

Resume(r, h) ==
  /\ run[r].pc \notin {"idle", "done"}
  /\ ~ProbePending(r)
  /\ CASE run[r].pc = "extract"     -> StepExtract(r, h)
       [] run[r].pc = "thumb"       -> StepThumb(r, h)
       [] run[r].pc = "shot"        -> StepShot(r, h)
       [] run[r].pc = "rename"      -> StepRename(r, h)
       [] run[r].pc = "upThumb"     -> StepUpThumb(r, h)
       [] run[r].pc = "unlinkThumb" -> StepUnlinkThumb(r, h)
       [] run[r].pc = "upMain"      -> StepUpMain(r, h)
       [] run[r].pc = "create"      -> StepCreate(r, h)
       [] run[r].pc = "unlinkMain"  -> StepUnlinkMain(r, h)

(* ------------------------------ actions -------------------------------- *)
\* POST /api/gallery: multer stages the file (or none came) and
\* createGalleryItem runs up to its first await
Request(r) ==
  /\ mode = "create"
  /\ r \in 1..NumRequests
  /\ run[r].pc = "idle"
  /\ \E hasFile \in BOOLEAN, k \in 1..NumKinds :
       IF hasFile
       THEN /\ imageFilter(FileKinds[k])
            /\ files' = [files EXCEPT ![r] = FileKinds[k]]
            /\ disk' = disk \cup {StagedPath(r)}
            /\ run' = [run EXCEPT ![r] = [InitRun EXCEPT !.pc = "extract",
                                            !.mediaType = mediaTypeOf(FileKinds[k])]]
       ELSE /\ k = 1
            /\ run' = [run EXCEPT ![r] = [InitRun EXCEPT !.pc = "done", !.outcome = "error",
                                                         !.failedAt = "no-file"]]
            /\ UNCHANGED <<files, disk>>
  /\ UNCHANGED <<mode, now, nFiles, i, bulkPc, uploadedItems, db, cloud, providerUp, response, calls, del, ids, manyPc, manyResponse, restVars>>

createGalleryItem(r) ==
  /\ mode = "create"
  /\ Resume(r, "create")
  /\ UNCHANGED <<mode, now, files, nFiles, i, bulkPc, providerUp, response, calls, del, ids, manyPc, manyResponse, restVars>>

processFile(r) ==
  /\ mode = "bulk"
  /\ Resume(r, "bulk")
  /\ UNCHANGED <<mode, now, files, nFiles, i, bulkPc, providerUp, response, calls, del, ids, manyPc, manyResponse, restVars>>

\* a dispatch of every file after index k at once
DispatchRest(k) == [r \in RunIds |-> IF r \in 1..nFiles /\ r > k THEN Started(r) ELSE run[r]]

\* batch.map(processFile): every file of the chunk starts its run
Dispatch(k) == [r \in RunIds |-> IF r \in Chunk(k) THEN Started(r) ELSE run[r]]

\* POST /api/gallery/bulk: entry of the handler up to the first Promise.all
bulkUploadGalleryItems ==
  /\ mode = "bulk"
  /\ bulkPc = "start"
  /\ IF nFiles = 0
     THEN /\ response' = [status |-> 400, count |-> 0, data |-> <<>>]
          /\ bulkPc' = "responded"
          /\ UNCHANGED run
     ELSE /\ run' = Dispatch(0)
          /\ bulkPc' = "await"
          /\ UNCHANGED response
  /\ UNCHANGED <<mode, now, disk, files, nFiles, i, uploadedItems, db, cloud, providerUp, calls, del, ids, manyPc, manyResponse, restVars>>

\* a wait that is over as soon as one run of the chunk has settled
ChunkAnySettled(k) == \E r \in Chunk(k) : run[r].pc = "done"

\* await Promise.all(batch.map(processFile)): every run of the chunk settled
ChunkSettled(k) == \A r \in Chunk(k) : run[r].pc = "done"

\* Promise.all of the current chunk resolved: next chunk, or the response
bulkAwaitAll ==
  /\ mode = "bulk"
  /\ bulkPc = "await"
  /\ ChunkSettled(i)
  /\ i' = i + concurrencyLimit
  /\ IF i + concurrencyLimit < nFiles
     THEN /\ run' = Dispatch(i + concurrencyLimit)
          /\ UNCHANGED <<bulkPc, response>>
     ELSE /\ response' = [status |-> 201, count |-> Len(uploadedItems), data |-> uploadedItems]
          /\ bulkPc' = "responded"
          /\ UNCHANGED run
  /\ UNCHANGED <<mode, now, disk, files, nFiles, uploadedItems, db, cloud, providerUp, calls, del, ids, manyPc, manyResponse, restVars>>

\* the client closes the connection while the batch is being processed;
\* the handler registers no listener and reads no abort signal
Cancel ==
  /\ mode = "bulk"
  /\ bulkPc = "await"
  /\ ~cancelled
  /\ cancelled' = TRUE
  /\ UNCHANGED <<ingestVars, deleteVars, upd, proj, mw>>

\* a millisecond passes
Tick ==
  /\ now < MaxClock
  /\ now' = now + 1
  /\ UNCHANGED <<mode, disk, files, nFiles, run, i, bulkPc, uploadedItems, db, cloud, providerUp, response, calls, del, ids, manyPc, manyResponse, restVars>>

(* ---------------------- storage gateway: delete ------------------------ *)
\* bound: concurrent DELETE requests / direct callers of the gateway, and
\* the longest ids array of a bulk delete
NumDeletes == 2
DeleteIds == 1..NumDeletes

(* A string with slashes is the sequence of its '/'-parts, and each part   *)
(* the sequence of its '.'-pieces: "a/b.webp" is <<<<"a">>, <<"b","webp">>>> *)
Names == <<"a", "b", "c", "d", "e", "f">>
OrigId(k) == << <<"portfolio">>, <<"gallery">>, <<Names[k]>> >>
ThumbId(k) == << <<"portfolio">>, <<"gallery">>, <<"thumbnails">>, <<Names[k]>> >>

\* result.secure_url of an object uploaded with format 'webp'
secure_url(id) ==
  << <<"https:">>, <<"">>, <<"res", "cloudinary", "com">>, <<"demo">>,
     <<"image">>, <<"upload">>, <<"v1">> >>
  \o SubSeq(id, 1, Len(id) - 1) \o << id[Len(id)] \o <<"webp">> >>

\* publicId.startsWith('http')
startsWithHttp(s) == s[1][1] \in {"http:", "https:"}

\* urlParts.findIndex(part => part === 'upload'), zero-based, -1 if none
findIndex(urlParts, part) ==
  IF \E j \in 1..Len(urlParts) : urlParts[j] = part
  THEN (CHOOSE j \in 1..Len(urlParts) :
          urlParts[j] = part /\ \A m \in 1..(j - 1) : urlParts[m] # part) - 1
  ELSE -1

\* the id handed to destroy: the argument itself, or, for a URL, the folders
\* after 'upload/<version>/' joined to the file name up to its first dot
idToDelete(publicId) ==
  IF ~startsWithHttp(publicId) THEN publicId
  ELSE LET urlParts == publicId
           fileName == urlParts[Len(urlParts)]
           name == <<fileName[1]>>
           folderIndex == findIndex(urlParts, <<"upload">>)
       IN  IF folderIndex > 0
           THEN SubSeq(urlParts, folderIndex + 3, Len(urlParts) - 1) \o <<name>>
           ELSE <<name>>

NoCall == [pc |-> "idle", arg |-> Undefined, id |-> Undefined,
           threw |-> FALSE, result |-> "none", message |-> ""]

\* a catch block that throws the error on
deleteReturnRethrows(rejected, answer, message) ==
  [threw |-> rejected, result |-> IF rejected THEN "error" ELSE answer, message |-> message]

\* a gateway that reports a missing object as an error
deleteReturnNotFoundIsError(rejected, answer, message) ==
  [threw |-> FALSE,
   result |-> IF rejected \/ answer = "not found" THEN "error" ELSE answer,
   message |-> IF answer = "not found" THEN "not found" ELSE message]

\* how deleteFromCloudinary ends: the provider's result object as it is
\* ('not found' is only logged), or, from the catch, {result: 'error', message}
deleteReturn(rejected, answer, message) ==
  [threw |-> FALSE, result |-> IF rejected THEN "error" ELSE answer, message |-> message]

\* the call is over
deleteSettled(call, rejected, answer, message) ==
  LET ret == deleteReturn(rejected, answer, message)
  IN  [call EXCEPT !.pc = "returned", !.threw = ret.threw,
                   !.result = ret.result, !.message = ret.message]

\* deleteFromCloudinary(publicId) up to its await: a missing id throws into
\* the catch; otherwise destroy and the 10 s timer are started
deleteFromCloudinary(publicId) ==
  IF Falsy(publicId)
  THEN deleteSettled([NoCall EXCEPT !.arg = publicId], TRUE, "none", "No public ID provided")
  ELSE [NoCall EXCEPT !.pc = "racing", !.arg = publicId, !.id = idToDelete(publicId)]

\* destroyPromise settles first: the provider removes the object and answers
\* 'ok', answers 'not found', or fails
DestroySettles(c) ==
  /\ calls[c].pc = "racing"
  /\ \E rejects \in BOOLEAN :
       IF rejects
       THEN /\ calls' = [calls EXCEPT ![c] = deleteSettled(@, TRUE, "none", "provider error")]
            /\ UNCHANGED cloud
       ELSE /\ calls' = [calls EXCEPT ![c] =
                 deleteSettled(@, FALSE, IF calls[c].id \in cloud THEN "ok" ELSE "not found", "")]
            /\ cloud' = cloud \ {calls[c].id}
  /\ UNCHANGED <<mode, now, disk, files, nFiles, run, i, bulkPc, uploadedItems, db, providerUp, response, restVars>>
  /\ UNCHANGED <<del, ids, manyPc, manyResponse>>

\* a gateway that starts no timer
TimeoutNeverFires(c) == FALSE /\ UNCHANGED vars

\* the 10 s timer rejects timeoutPromise first
TimeoutFires(c) ==
  /\ calls[c].pc = "racing"
  /\ calls' = [calls EXCEPT ![c] = deleteSettled(@, TRUE, "none", "timed out")]
  /\ UNCHANGED <<ingestVars, del, ids, manyPc, manyResponse, restVars>>

\* an object whose file name has a dot of its own: "portfolio/news/a.b"
DottedId == << <<"portfolio">>, <<"news">>, <<"a", "b">> >>

\* what callers outside the gallery pass: nothing, an id, or a stored URL
GatewayArgs == {Undefined, OrigId(1), secure_url(OrigId(1)), secure_url(ThumbId(2)),
                secure_url(DottedId)}

\* a direct call of the gateway
deleteFromCloudinaryCall(c) ==
  /\ mode = "gateway"
  /\ calls[c].pc = "idle"
  /\ \E publicId \in GatewayArgs : calls' = [calls EXCEPT ![c] = deleteFromCloudinary(publicId)]
  /\ UNCHANGED <<ingestVars, del, ids, manyPc, manyResponse, restVars>>

(* ------------------------- gallery: delete ----------------------------- *)
\* item.name in JavaScript: undefined when the document has no such field
Field(item, name) == IF name \in DOMAIN item THEN item[name] ELSE Undefined

Meta == {"width", "height", "format", "size", "aspectRatio"}

(* The documents the collection holds when a delete request arrives:      *)
(*   1  as GalleryItem.create writes it: url and thumbnailUrl, no ids      *)
(*   2  with publicId and thumbnailPublicId                                *)
(*   3  with publicId only, the field updateGalleryItem sets               *)
ItemDocs == <<
  MakeItem(1, "image", secure_url(OrigId(1)), secure_url(ThumbId(1)), Meta),
  MakeItem(2, "image", secure_url(OrigId(2)), secure_url(ThumbId(2)), Meta)
    @@ [publicId |-> OrigId(2), thumbnailPublicId |-> ThumbId(2)],
  MakeItem(3, "image", secure_url(OrigId(3)), secure_url(ThumbId(3)), Meta)
    @@ [publicId |-> OrigId(3)]
>>
NumItems == Len(ItemDocs)
RemoteObjects == {OrigId(k) : k \in 1..NumItems} \cup {ThumbId(k) : k \in 1..NumItems}

NoDel == [pc |-> "idle", id |-> 0, item |-> Null, remote |-> <<>>, outcome |-> "none", status |-> 0]

\* a handler that gives up when the gateway reports an error
remoteFatalOnError(call) == call.threw \/ call.result = "error"

\* await deleteFromCloudinary(...): only a throw leaves the handler
remoteFatal(call) == call.threw

\* if (item.thumbnailPublicId) await deleteFromCloudinary(...), else item.remove()
AfterOriginal(d, call, item) ==
  IF ~Falsy(Field(item, "thumbnailPublicId"))
  THEN [d |-> [d EXCEPT !.pc = "awaitThumb"], call |-> deleteFromCloudinary(item.thumbnailPublicId)]
  ELSE [d |-> [d EXCEPT !.pc = "remove"], call |-> call]

\* if (item.publicId) await deleteFromCloudinary(item.publicId)
StartDelete(d, call, item) ==
  IF ~Falsy(Field(item, "publicId"))
  THEN [d |-> [d EXCEPT !.pc = "awaitOrig", !.id = item.file, !.item = item],
        call |-> deleteFromCloudinary(item.publicId)]
  ELSE AfterOriginal([d EXCEPT !.id = item.file, !.item = item], call, item)

\* the handler is resumed after an await; h is "one" or "many"
ItemStep(q, h) ==
  LET d == del[q]
      seen == [d EXCEPT !.remote = Append(@, [publicId |-> calls[q].arg, result |-> calls[q].result])]
      thrown == [seen EXCEPT !.pc = "done", !.outcome = "rejected",
                             !.status = IF h = "one" THEN 500 ELSE 0]
  IN  CASE d.pc = "awaitOrig" ->
             /\ calls[q].pc = "returned"
             /\ IF remoteFatal(calls[q])
                THEN del' = [del EXCEPT ![q] = thrown] /\ UNCHANGED calls
                ELSE LET n == AfterOriginal(seen, calls[q], d.item)
                     IN  del' = [del EXCEPT ![q] = n.d] /\ calls' = [calls EXCEPT ![q] = n.call]
             /\ UNCHANGED db
        [] d.pc = "awaitThumb" ->
             /\ calls[q].pc = "returned"
             /\ IF remoteFatal(calls[q])
                THEN del' = [del EXCEPT ![q] = thrown]
                ELSE del' = [del EXCEPT ![q] = [seen EXCEPT !.pc = "remove"]]
             /\ UNCHANGED <<calls, db>>
        [] d.pc = "remove" ->
             /\ db' = db \ {d.item}
             /\ del' = [del EXCEPT ![q] = [d EXCEPT !.pc = "done", !.outcome = "fulfilled",
                                                    !.status = IF h = "one" THEN 200 ELSE 0]]
             /\ UNCHANGED calls

\* DELETE /api/gallery/:id
deleteGalleryItem(q) ==
  /\ mode = "delete"
  /\ del[q].pc # "done"
  /\ CASE del[q].pc = "idle" ->
             /\ \E id \in 0..NumItems : del' = [del EXCEPT ![q] = [@ EXCEPT !.pc = "find", !.id = id]]
             /\ UNCHANGED <<calls, db>>
        [] del[q].pc = "find" ->
             LET found == {item \in db : item.file = del[q].id}
             IN  /\ IF found = {}
                    THEN /\ del' = [del EXCEPT ![q] = [@ EXCEPT !.pc = "done", !.outcome = "rejected",
                                                                 !.status = 404]]
                         /\ UNCHANGED calls
                    ELSE LET n == StartDelete(del[q], calls[q], CHOOSE item \in found : TRUE)
                         IN  del' = [del EXCEPT ![q] = n.d] /\ calls' = [calls EXCEPT ![q] = n.call]
                 /\ UNCHANGED db
        [] OTHER -> ItemStep(q, "one")
  /\ UNCHANGED <<mode, now, disk, files, nFiles, run, i, bulkPc, uploadedItems, cloud, providerUp, response, restVars>>
  /\ UNCHANGED <<ids, manyPc, manyResponse>>

\* what req.body.ids may be: missing or not an array, or an array of known
\* ids, repeats and unknown ids (0)
NoIds == [isArray |-> FALSE, elems |-> <<>>]
IdArrays ==
  {NoIds} \cup {[isArray |-> TRUE, elems |-> a] :
                  a \in UNION {[1..n -> 0..NumItems] : n \in 0..NumDeletes}}

\* the q-th of the documents find returned
NthItem(items, q) ==
  CHOOSE item \in items : Cardinality({other \in items : other.file < item.file}) = q - 1

\* DELETE /api/gallery: validation, find, items.map(...), Promise.all, response
deleteMultipleGalleryItems ==
  /\ mode = "deleteMany"
  /\ CASE manyPc = "start" ->
             /\ \E a \in IdArrays :
                  /\ ids' = a
                  /\ IF ~a.isArray \/ Len(a.elems) = 0
                     THEN manyPc' = "responded" /\ manyResponse' = 400
                     ELSE manyPc' = "find" /\ UNCHANGED manyResponse
             /\ UNCHANGED <<del, calls>>
        [] manyPc = "find" ->
             LET items == {item \in db : \E j \in 1..Len(ids.elems) : ids.elems[j] = item.file}
                 n(q) == StartDelete(NoDel, NoCall, NthItem(items, q))
             IN  /\ del' = [q \in DeleteIds |-> IF q <= Cardinality(items) THEN n(q).d ELSE NoDel]
                 /\ calls' = [q \in DeleteIds |-> IF q <= Cardinality(items) THEN n(q).call ELSE NoCall]
                 /\ manyPc' = "await"
                 /\ UNCHANGED <<ids, manyResponse>>
        [] manyPc = "await" ->
             /\ IF \E q \in DeleteIds : del[q].outcome = "rejected"
                THEN manyResponse' = 500
                ELSE /\ \A q \in DeleteIds : del[q].pc \in {"idle", "done"}
                     /\ manyResponse' = 200
             /\ manyPc' = "responded"
             /\ UNCHANGED <<ids, del, calls>>
        [] manyPc = "responded" -> FALSE /\ UNCHANGED deleteVars
  /\ UNCHANGED ingestVars
  /\ UNCHANGED restVars

\* one callback of items.map(async (item) => ...)
deletePromises(q) ==
  /\ mode = "deleteMany"
  /\ del[q].pc \in {"awaitOrig", "awaitThumb", "remove"}
  /\ ItemStep(q, "many")
  /\ UNCHANGED <<mode, now, disk, files, nFiles, run, i, bulkPc, uploadedItems, cloud, providerUp, response, restVars>>
  /\ UNCHANGED <<ids, manyPc, manyResponse>>

(* --------------------- replacing a stored file ------------------------- *)
NewsId(n) == << <<"portfolio">>, <<"news">>, <<Names[n]>> >>

\* the News collection: one article with a featured image
ArticleDocs == << [file |-> 1, featuredImage |-> secure_url(NewsId(1))] >>
NumArticles == Len(ArticleDocs)

\* req.files.featuredImage of request q: a small image, one over 5MB, a pdf
ArticleFiles(q) ==
  {FileArg(StagedPath(q), 1, <<"image", "jpeg">>),
   FileArg(StagedPath(q), maxSize + 1, <<"image", "jpeg">>),
   FileArg(StagedPath(q), 1, <<"application", "pdf">>)}
NoUpload == [shape |-> "none", str |-> Undefined, path |-> Undefined, size |-> 0, mimetype |-> Undefined]

NoUpd == [pc |-> "idle", id |-> 0, file |-> NoUpload, found |-> FALSE, deleted |-> {},
          newUrl |-> Undefined, newId |-> Undefined, thumbnailPath |-> Null,
          thumbnailUrl |-> Undefined, status |-> 0]

\* the handler throws: catchAsync passes the error on and nothing is saved
UpdThrow(q, u, code) == upd' = [upd EXCEPT ![q] = [u EXCEPT !.pc = "done", !.status = code]]

\* the old object is gone if the provider answered 'ok'
AfterOldDelete(u, call) ==
  [u EXCEPT !.deleted = IF call.result = "ok" THEN {call.id} ELSE {}]

\* updateGalleryItem: uploadToCloudinary(req.file.path, 'gallery') is called
GalleryStartUpload(q, u) ==
  IF uploadValidate(StringArg(StagedPath(q))) = "ok"
  THEN upd' = [upd EXCEPT ![q] = [u EXCEPT !.pc = "upload"]]
  ELSE UpdThrow(q, u, 400)

\* PUT /api/gallery/:id
updateGalleryItem(q) ==
  LET u == upd[q]
      found == {item \in db : item.file = u.id}
  IN
  /\ mode = "update"
  /\ u.pc # "done"
  /\ CASE u.pc = "idle" ->
             /\ \E id \in 0..NumItems, hasFile \in BOOLEAN :
                  IF hasFile
                  THEN /\ upd' = [upd EXCEPT ![q] = [u EXCEPT !.pc = "find", !.id = id,
                                       !.file = StringArg(StagedPath(q))]]
                       /\ disk' = disk \cup {StagedPath(q)}
                  ELSE /\ upd' = [upd EXCEPT ![q] = [u EXCEPT !.pc = "save", !.id = id]]
                       /\ UNCHANGED disk
             /\ UNCHANGED <<calls, db, cloud>>
        [] u.pc = "find" ->
             /\ IF found # {} /\ ~Falsy(Field(CHOOSE item \in found : TRUE, "publicId"))
                THEN /\ upd' = [upd EXCEPT ![q] = [u EXCEPT !.pc = "awaitDelete", !.found = TRUE]]
                     /\ calls' = [calls EXCEPT ![q] =
                                    deleteFromCloudinary((CHOOSE item \in found : TRUE).publicId)]
                ELSE /\ GalleryStartUpload(q, [u EXCEPT !.found = (found # {})])
                     /\ UNCHANGED calls
             /\ UNCHANGED <<disk, db, cloud>>
        [] u.pc = "awaitDelete" ->
             /\ calls[q].pc = "returned"
             /\ IF remoteFatal(calls[q])
                THEN UpdThrow(q, u, 500)
                ELSE GalleryStartUpload(q, AfterOldDelete(u, calls[q]))
             /\ UNCHANGED <<calls, disk, db, cloud>>
        [] u.pc = "upload" ->
             LET res == uploadSettle(u.file, "gallery", providerUp, disk)
             IN  /\ disk' = disk \ res.unlinked
                 /\ IF res.ok
                    THEN /\ upd' = [upd EXCEPT ![q] = [u EXCEPT !.pc = "thumb",
                                       !.newUrl = res.secure_url, !.newId = res.public_id]]
                         /\ cloud' = cloud \cup {res.public_id}
                    ELSE UpdThrow(q, u, 500) /\ UNCHANGED cloud
                 /\ UNCHANGED <<calls, db>>
        [] u.pc = "thumb" ->
             /\ IF FileKinds[1].decodes /\ StagedPath(q) \in disk
                THEN /\ disk' = disk \cup {ThumbPath(now)}
                     /\ IF uploadValidate(StringArg(ThumbPath(now))) = "ok"
                        THEN upd' = [upd EXCEPT ![q] = [u EXCEPT !.pc = "upThumb",
                                                                 !.thumbnailPath = ThumbPath(now)]]
                        ELSE UpdThrow(q, [u EXCEPT !.thumbnailPath = ThumbPath(now)], 400)
                ELSE /\ upd' = [upd EXCEPT ![q] = [u EXCEPT !.pc = "unlink"]]
                     /\ UNCHANGED disk
             /\ UNCHANGED <<calls, db, cloud>>
        [] u.pc = "upThumb" ->
             LET res == uploadSettle(StringArg(u.thumbnailPath), "gallery/thumbnails", providerUp, disk)
             IN  /\ disk' = disk \ res.unlinked
                 /\ IF res.ok
                    THEN /\ upd' = [upd EXCEPT ![q] = [u EXCEPT !.pc = "unlinkThumb",
                                                                !.thumbnailUrl = res.secure_url]]
                         /\ cloud' = cloud \cup {res.public_id}
                    ELSE UpdThrow(q, u, 500) /\ UNCHANGED cloud
                 /\ UNCHANGED <<calls, db>>
        [] u.pc = "unlinkThumb" ->
             /\ disk' = disk \ {u.thumbnailPath}
             /\ upd' = [upd EXCEPT ![q] = [u EXCEPT !.pc = "unlink"]]
             /\ UNCHANGED <<calls, db, cloud>>
        [] u.pc = "unlink" ->
             /\ disk' = disk \ {StagedPath(q)}
             /\ upd' = [upd EXCEPT ![q] = [u EXCEPT !.pc = "save"]]
             /\ UNCHANGED <<calls, db, cloud>>
        [] u.pc = "save" ->
             /\ IF found = {}
                THEN UpdThrow(q, u, 404) /\ UNCHANGED db
                ELSE LET old == CHOOSE item \in found : TRUE
                         new == IF u.file.shape = "none" THEN old
                                ELSE [f \in DOMAIN old \cup {"publicId"} |->
                                        IF f = "url" THEN u.newUrl
                                        ELSE IF f = "publicId" THEN u.newId
                                        ELSE IF f = "thumbnailUrl" /\ u.thumbnailPath # Null
                                             THEN u.thumbnailUrl
                                        ELSE old[f]]
                     IN  /\ db' = (db \ {old}) \cup {new}
                         /\ upd' = [upd EXCEPT ![q] = [u EXCEPT !.pc = "done", !.status = 200]]
             /\ UNCHANGED <<calls, disk, cloud>>
  /\ UNCHANGED <<mode, now, files, nFiles, run, i, bulkPc, uploadedItems, providerUp, response>>
  /\ UNCHANGED <<del, ids, manyPc, manyResponse, cancelled, proj, mw>>

\* updateArticle: uploadToCloudinary(req.files.featuredImage, 'news') is called;
\* a failed check throws into its catch, which unlinks file.path
ArticleStartUpload(q, u) ==
  IF uploadValidate(u.file) = "ok"
  THEN upd' = [upd EXCEPT ![q] = [u EXCEPT !.pc = "upload"]] /\ UNCHANGED disk
  ELSE UpdThrow(q, u, 400) /\ disk' = disk \ {u.file.path}

\* PUT /api/news/:id
updateArticle(q) ==
  LET u == upd[q]
      found == {article \in db : article.file = u.id}
  IN
  /\ mode = "updateArticle"
  /\ u.pc # "done"
  /\ CASE u.pc = "idle" ->
             /\ \E id \in 0..NumArticles, file \in ArticleFiles(q) \cup {NoUpload} :
                  /\ upd' = [upd EXCEPT ![q] = [u EXCEPT !.pc = "find", !.id = id, !.file = file]]
                  /\ disk' = IF file = NoUpload THEN disk ELSE disk \cup {StagedPath(q)}
             /\ UNCHANGED <<calls, db, cloud>>
        [] u.pc = "find" ->
             /\ IF found = {}
                THEN UpdThrow(q, u, 404) /\ UNCHANGED <<calls, disk>>
                ELSE LET article == CHOOSE a \in found : TRUE
                         v == [u EXCEPT !.found = TRUE]
                     IN  IF u.file = NoUpload
                         THEN upd' = [upd EXCEPT ![q] = [v EXCEPT !.pc = "save"]]
                              /\ UNCHANGED <<calls, disk>>
                         ELSE IF ~Falsy(article.featuredImage)
                         THEN /\ upd' = [upd EXCEPT ![q] = [v EXCEPT !.pc = "awaitDelete"]]
                              /\ calls' = [calls EXCEPT ![q] = deleteFromCloudinary(article.featuredImage)]
                              /\ UNCHANGED disk
                         ELSE ArticleStartUpload(q, v) /\ UNCHANGED calls
             /\ UNCHANGED <<db, cloud>>
        [] u.pc = "awaitDelete" ->
             /\ calls[q].pc = "returned"
             /\ IF remoteFatal(calls[q])
                THEN UpdThrow(q, u, 500) /\ UNCHANGED disk
                ELSE ArticleStartUpload(q, AfterOldDelete(u, calls[q]))
             /\ UNCHANGED <<calls, db, cloud>>
        [] u.pc = "upload" ->
             /\ \E up \in BOOLEAN :
                  LET res == uploadSettle(u.file, "news", up, disk)
                  IN  /\ disk' = disk \ res.unlinked
                      /\ IF res.ok
                         THEN /\ upd' = [upd EXCEPT ![q] = [u EXCEPT !.pc = "save",
                                            !.newId = NewsId(q + 1),
                                            !.newUrl = secure_url(NewsId(q + 1))]]
                              /\ cloud' = cloud \cup {NewsId(q + 1)}
                         ELSE UpdThrow(q, u, 500) /\ UNCHANGED cloud
             /\ UNCHANGED <<calls, db>>
        [] u.pc = "save" ->
             /\ db' = IF u.file = NoUpload THEN db
                      ELSE {a \in db : a.file # u.id}
                           \cup {[file |-> u.id, featuredImage |-> u.newUrl]}
             /\ upd' = [upd EXCEPT ![q] = [u EXCEPT !.pc = "done", !.status = 200]]
             /\ UNCHANGED <<calls, disk, cloud>>
  /\ UNCHANGED <<mode, now, files, nFiles, run, i, bulkPc, uploadedItems, providerUp, response>>
  /\ UNCHANGED <<del, ids, manyPc, manyResponse, cancelled, proj, mw>>

(* -------------------------- deleteProject ------------------------------ *)
ProjId(n) == << <<"portfolio">>, <<"projects">>, <<Names[n]>> >>
\* the schema default of photo: the string 'default.jpg'
DefaultPhoto == << <<"default", "jpg">> >>

\* the Project collection: photo and screenshots are stored as strings
ProjectDocs == <<
  [file |-> 1, photo |-> secure_url(ProjId(1)),
   screenshots |-> <<secure_url(ProjId(2)), secure_url(ProjId(3))>>],
  [file |-> 2, photo |-> DefaultPhoto, screenshots |-> <<>>],
  [file |-> 3, photo |-> secure_url(ProjId(4)), screenshots |-> <<secure_url(ProjId(5))>>]
>>
NumProjects == Len(ProjectDocs)
ProjectObjects == {ProjId(n) : n \in 1..5}

NoProj == [pc |-> "idle", id |-> 0, photoToDelete |-> Undefined, screenshotsToDelete |-> <<>>,
           status |-> 0, background |-> "none"]

\* a handler that leaves the row in place
RowKept(collection, id) == collection

\* Project.findByIdAndDelete(req.params.id)
RowRemoved(collection, id) == {doc \in collection : doc.file # id}

\* screenshotsToDelete.map(...): every screenshot's delete is called at once
StartScreenshots(p) ==
  [c \in DeleteIds |-> IF c <= Len(p.screenshotsToDelete)
                       THEN deleteFromCloudinary(p.screenshotsToDelete[c]) ELSE NoCall]

\* DELETE /api/projects/:id and its background cleanup
deleteProject ==
  LET p == proj
      found == {doc \in db : doc.file = p.id}
  IN
  /\ mode = "deleteProject"
  /\ p.pc # "done"
  /\ CASE p.pc = "idle" ->
             /\ \E id \in 0..NumProjects : proj' = [p EXCEPT !.pc = "find", !.id = id]
             /\ UNCHANGED <<calls, db>>
        [] p.pc = "find" ->
             /\ IF found = {}
                THEN proj' = [p EXCEPT !.pc = "done", !.status = 404]
                ELSE LET project == CHOOSE doc \in found : TRUE
                     IN  proj' = [p EXCEPT !.pc = "dbDelete", !.photoToDelete = project.photo,
                                           !.screenshotsToDelete = project.screenshots]
             /\ UNCHANGED <<calls, db>>
        [] p.pc = "dbDelete" ->
             \E deleted \in BOOLEAN :
               IF ~deleted
               THEN /\ proj' = [p EXCEPT !.pc = "done", !.status = 500]
                    /\ UNCHANGED <<calls, db>>
               ELSE /\ db' = RowRemoved(db, p.id)
                    /\ IF ~Falsy(p.photoToDelete)
                       THEN /\ calls' = [calls EXCEPT ![1] = deleteFromCloudinary(p.photoToDelete)]
                            /\ proj' = [p EXCEPT !.pc = "photo", !.status = 204,
                                                 !.background = "running"]
                       ELSE IF Len(p.screenshotsToDelete) > 0
                       THEN /\ calls' = StartScreenshots(p)
                            /\ proj' = [p EXCEPT !.pc = "screenshots", !.status = 204,
                                                 !.background = "running"]
                       ELSE /\ proj' = [p EXCEPT !.pc = "done", !.status = 204,
                                                 !.background = "done"]
                            /\ UNCHANGED calls
        [] p.pc = "photo" ->
             /\ calls[1].pc = "returned"
             /\ IF remoteFatal(calls[1])
                THEN proj' = [p EXCEPT !.pc = "done", !.background = "caught"] /\ UNCHANGED calls
                ELSE IF Len(p.screenshotsToDelete) > 0
                THEN proj' = [p EXCEPT !.pc = "screenshots"] /\ calls' = StartScreenshots(p)
                ELSE proj' = [p EXCEPT !.pc = "done", !.background = "done"] /\ UNCHANGED calls
             /\ UNCHANGED db
        [] p.pc = "screenshots" ->
             /\ IF \E c \in DeleteIds : calls[c].pc = "returned" /\ remoteFatal(calls[c])
                THEN proj' = [p EXCEPT !.pc = "done", !.background = "caught"]
                ELSE /\ \A c \in DeleteIds : calls[c].pc \in {"idle", "returned"}
                     /\ proj' = [p EXCEPT !.pc = "done", !.background = "done"]
             /\ UNCHANGED <<calls, db>>
  /\ UNCHANGED <<mode, now, disk, files, nFiles, run, i, bulkPc, uploadedItems, cloud, providerUp, response>>
  /\ UNCHANGED <<del, ids, manyPc, manyResponse, cancelled, upd, mw>>

(* --------------------- multer: handleUploadError ----------------------- *)
\* bounds: concurrent upload requests, files staged by one upload.array
NumUploads == 1
MaxStaged == 3
UploadIds == 1..NumUploads

\* the j-th file multer staged for request q
UploadPath(q, j) == <<"uploads", q, j>>

\* err as multer hands it to the callback: nothing, a MulterError code, the
\* ApiError of imageFilter, or any other error
UploadErrors == {"LIMIT_FILE_SIZE", "LIMIT_FILE_COUNT", "LIMIT_UNEXPECTED_FILE", "ApiError", "other"}
NoError == "none"

\* req.files: undefined (upload.single) or an array of staged files
NoFiles == [isArray |-> FALSE, elems |-> <<>>]

\* the requests the callback can see: upload.single sets req.file or nothing,
\* upload.array sets req.files
Requests(q) ==
  {[file |-> Undefined, files |-> NoFiles], [file |-> UploadPath(q, 1), files |-> NoFiles]}
  \cup {[file |-> Undefined, files |-> [isArray |-> TRUE, elems |-> [j \in 1..n |-> UploadPath(q, j)]]] :
          n \in 0..MaxStaged}

\* the error handed to next for an upload error
NextError(err) ==
  CASE err = "LIMIT_FILE_SIZE"       -> "File size exceeds 5MB limit"
    [] err = "LIMIT_FILE_COUNT"      -> "Too many files uploaded"
    [] err = "LIMIT_UNEXPECTED_FILE" -> "Unexpected field in file upload"
    [] err = "ApiError"              -> "ApiError"
    [] OTHER                         -> "File upload error"

\* the files whose fs.unlink is requested: req.file, else each of req.files
CleanUp(req) ==
  IF ~Falsy(req.file) THEN {req.file}
  ELSE IF req.files.isArray THEN {req.files.elems[j] : j \in 1..Len(req.files.elems)}
  ELSE {}

\* a branch without its return: the final next() is reached as well
handleUploadErrorFallsThrough(err, req) ==
  IF err # NoError
  THEN [unlinks |-> CleanUp(req), nexts |-> <<NextError(err), NoError>>]
  ELSE [unlinks |-> {}, nexts |-> <<NoError>>]

\* handleUploadError(err, req, res, next): the unlinks it requests and the
\* arguments of its calls of next, in order
handleUploadError(err, req) ==
  IF err # NoError
  THEN [unlinks |-> CleanUp(req), nexts |-> <<NextError(err)>>]
  ELSE [unlinks |-> {}, nexts |-> <<NoError>>]

NoMw == [pc |-> "idle", err |-> NoError, req |-> [file |-> Undefined, files |-> NoFiles],
         requested |-> {}, unlinks |-> {}, nexts |-> <<>>]

\* multer calls back for request q and the callback calls handleUploadError
fileUpload(q) ==
  /\ mode = "upload"
  /\ mw[q].pc = "idle"
  /\ \E err \in UploadErrors \cup {NoError}, req \in Requests(q), kept \in BOOLEAN :
       LET h == handleUploadError(err, req)
           staged == CleanUp(req)
       IN  /\ mw' = [mw EXCEPT ![q] = [pc |-> "called", err |-> err, req |-> req,
                                       requested |-> h.unlinks, unlinks |-> h.unlinks,
                                       nexts |-> h.nexts]]
           \* on an error multer has already removed what it staged, or not yet
           /\ disk' = disk \cup (IF err = NoError \/ kept THEN staged ELSE {})
  /\ UNCHANGED <<mode, now, files, nFiles, run, i, bulkPc, uploadedItems, db, cloud, providerUp, response>>
  /\ UNCHANGED <<deleteVars, cancelled, upd, proj>>

\* one fs.unlink requested by handleUploadError completes; a failure is logged
unlinkCallback(q) ==
  /\ mode = "upload"
  /\ \E p \in mw[q].unlinks :
       /\ mw' = [mw EXCEPT ![q].unlinks = @ \ {p}]
       /\ disk' = disk \ {p}
  /\ UNCHANGED <<mode, now, files, nFiles, run, i, bulkPc, uploadedItems, db, cloud, providerUp, response>>
  /\ UNCHANGED <<deleteVars, cancelled, upd, proj>>

(* ------------------------------- init ---------------------------------- *)
NoResponse == [status |-> 0, count |-> 0, data |-> <<>>]

\* the batch a bulk request carries: n files, kinds taken round the catalogue
BatchOf(n, offset) ==
  [r \in RunIds |-> IF r <= n THEN FileKinds[((r - 1 + offset) % NumKinds) + 1] ELSE NoFile]

InitCommon ==
  /\ now = 0
  /\ run = [r \in RunIds |-> InitRun]
  /\ i = 0
  /\ bulkPc = "start"
  /\ uploadedItems = <<>>
  /\ db = {}
  /\ cloud = {}
  /\ providerUp \in BOOLEAN
  /\ response = NoResponse

\* no delete is going on
InitNoDelete ==
  /\ calls = [c \in DeleteIds |-> NoCall]
  /\ del = [q \in DeleteIds |-> NoDel]
  /\ ids = NoIds
  /\ manyPc = "start"
  /\ manyResponse = 0
  /\ cancelled = FALSE
  /\ upd = [q \in DeleteIds |-> NoUpd]
  /\ proj = NoProj
  /\ mw = [q \in UploadIds |-> NoMw]

InitCreate ==
  /\ mode = "create"
  /\ nFiles = 0
  /\ files = [r \in RunIds |-> NoFile]
  /\ disk = {}
  /\ InitCommon
  /\ InitNoDelete

InitBulk ==
  /\ mode = "bulk"
  /\ nFiles \in 0..MaxFiles
  /\ \E offset \in 0..(NumKinds - 1) : files = BatchOf(nFiles, offset)
  /\ \A r \in 1..nFiles : imageFilter(files[r])
  /\ disk = {StagedPath(r) : r \in 1..nFiles}
  /\ InitCommon
  /\ InitNoDelete

Init == InitCreate \/ InitBulk

Next ==
  \/ \E r \in RunIds : Request(r)
  \/ \E r \in RunIds : createGalleryItem(r)
  \/ \E r \in RunIds : processFile(r)
  \/ bulkUploadGalleryItems
  \/ bulkAwaitAll
  \/ Cancel
  \/ Tick

Spec == Init /\ [][Next]_vars

(* The delete side: direct callers of the gateway, DELETE /api/gallery/:id *)
(* and DELETE /api/gallery, over a collection that holds ItemDocs.         *)
DeleteInit ==
  /\ mode \in {"gateway", "delete", "deleteMany"}
  /\ now = 0
  /\ run = [r \in RunIds |-> InitRun]
  /\ i = 0
  /\ bulkPc = "start"
  /\ uploadedItems = <<>>
  /\ nFiles = 0
  /\ files = [r \in RunIds |-> NoFile]
  /\ disk = {}
  /\ providerUp = TRUE
  /\ response = NoResponse
  /\ db = {ItemDocs[k] : k \in 1..NumItems}
  /\ cloud = RemoteObjects \cup {DottedId}
  /\ InitNoDelete

DeleteNext ==
  \/ \E c \in DeleteIds : deleteFromCloudinaryCall(c)
  \/ \E c \in DeleteIds : DestroySettles(c)
  \/ \E c \in DeleteIds : TimeoutFires(c)
  \/ \E q \in DeleteIds : deleteGalleryItem(q)
  \/ deleteMultipleGalleryItems
  \/ \E q \in DeleteIds : deletePromises(q)

DeleteSpec == DeleteInit /\ [][DeleteNext]_vars

(* Replacing the file of a stored record: PUT /api/gallery/:id over the     *)
(* gallery documents, PUT /api/news/:id over the articles.                 *)
UpdateInit ==
  /\ mode \in {"update", "updateArticle"}
  /\ now = 0
  /\ run = [r \in RunIds |-> InitRun]
  /\ i = 0
  /\ bulkPc = "start"
  /\ uploadedItems = <<>>
  /\ nFiles = 0
  /\ files = [r \in RunIds |-> NoFile]
  /\ disk = {}
  /\ providerUp \in BOOLEAN
  /\ response = NoResponse
  /\ IF mode = "update"
     THEN db = {ItemDocs[k] : k \in 1..NumItems} /\ cloud = RemoteObjects
     ELSE db = {ArticleDocs[k] : k \in 1..NumArticles}
          /\ cloud = {NewsId(k) : k \in 1..NumArticles}
  /\ InitNoDelete

UpdateNext ==
  \/ \E q \in DeleteIds : updateGalleryItem(q)
  \/ \E q \in DeleteIds : updateArticle(q)
  \/ \E c \in DeleteIds : DestroySettles(c)
  \/ \E c \in DeleteIds : TimeoutFires(c)

UpdateSpec == UpdateInit /\ [][UpdateNext]_vars

(* DELETE /api/projects/:id over the Project collection.                   *)
ProjectInit ==
  /\ mode = "deleteProject"
  /\ now = 0
  /\ run = [r \in RunIds |-> InitRun]
  /\ i = 0
  /\ bulkPc = "start"
  /\ uploadedItems = <<>>
  /\ nFiles = 0
  /\ files = [r \in RunIds |-> NoFile]
  /\ disk = {}
  /\ providerUp = TRUE
  /\ response = NoResponse
  /\ db = {ProjectDocs[k] : k \in 1..NumProjects}
  /\ cloud \in SUBSET ProjectObjects
  /\ InitNoDelete

ProjectNext ==
  \/ deleteProject
  \/ \E c \in DeleteIds : DestroySettles(c)
  \/ \E c \in DeleteIds : TimeoutFires(c)

ProjectSpec == ProjectInit /\ [][ProjectNext]_vars

(* The staging middleware: multer's callback and handleUploadError.        *)
UploadInit ==
  /\ mode = "upload"
  /\ now = 0
  /\ run = [r \in RunIds |-> InitRun]
  /\ i = 0
  /\ bulkPc = "start"
  /\ uploadedItems = <<>>
  /\ nFiles = 0
  /\ files = [r \in RunIds |-> NoFile]
  /\ disk = {}
  /\ providerUp = TRUE
  /\ response = NoResponse
  /\ db = {}
  /\ cloud = {}
  /\ InitNoDelete

UploadNext ==
  \/ \E q \in UploadIds : fileUpload(q)
  \/ \E q \in UploadIds : unlinkCallback(q)

UploadSpec == UploadInit /\ [][UploadNext]_vars

\* a timer that was started fires unless the process ends
DeleteFairSpec == DeleteSpec /\ \A c \in DeleteIds : WF_vars(TimeoutFires(c))

\* the event loop resumes every handler whose awaited promise has settled
FairSpec ==
  /\ Spec
  /\ \A r \in RunIds : WF_vars(createGalleryItem(r)) /\ WF_vars(processFile(r))
  /\ WF_vars(bulkUploadGalleryItems) /\ WF_vars(bulkAwaitAll)

(* ----------------------------- properties ------------------------------ *)
Done(r) == run[r].pc = "done"
\* runs that went through the pipeline (a request without a file did not)
Ran(r) == run[r].pc # "idle" /\ run[r].failedAt # "no-file"
InFlight == {r \in RunIds : run[r].pc \notin {"idle", "done"}}
Failed == {r \in 1..nFiles : run[r].outcome = "null"}
Responded == mode = "bulk" /\ bulkPc = "responded" /\ response.status = 201
\* the files the response body names
NamedInResponse == {response.data[k].file : k \in 1..Len(response.data)}
\* the external tool makes the try block of extractMetadata throw
ExtractFails(r) == extractMetadataTry(files[r], run[r].mediaType, TRUE).threw
PastThumbnail(r) == run[r].pc \notin {"idle", "extract", "thumb", "shot", "rename"} /\ Ran(r)
                    /\ run[r].failedAt # "inspect"

\* C1: in a bulk request the number of processFile runs started and not yet
\* terminal never exceeds the concurrency limit, whatever the number of files
C1_ConcurrencyBound == mode = "bulk" => Cardinality(InFlight) <= concurrencyLimit

C1_Witness == mode = "bulk" /\ nFiles > concurrencyLimit
              /\ Cardinality(InFlight) = concurrencyLimit

C3_FailedEntriesReported ==
  Responded => \A r \in Failed : r \in NamedInResponse

\* C4 (as claimed): once a run is terminal neither its staged file nor the
\* thumbnail it generated is on disk
C4_CleanupOnEveryExit ==
  \A r \in RunIds : Done(r) /\ Ran(r) =>
    /\ StagedPath(r) \notin disk
    /\ run[r].thumbnailPath # Null => run[r].thumbnailPath \notin disk

\* C5: a run whose upload of the original failed is terminal at the
\* upload-original stage and has no record, persisted or returned
C5_UploadOriginalFatal ==
  \A r \in RunIds : run[r].mainUpload = "failed" =>
    /\ Done(r) /\ run[r].failedAt = "upload-original" /\ run[r].outcome \in {"null", "error"}
    /\ \A item \in db : item.file # r
    /\ \A k \in 1..Len(uploadedItems) : uploadedItems[k] = Null \/ uploadedItems[k].file # r

C5_Witness == \E r \in RunIds : run[r].mainUpload = "failed" /\ Done(r)

\* C6 (as claimed): a failed upload of a generated thumbnail does not end the
\* run: it goes on to the original and ends with a record without thumbnailUrl
C6_ThumbUploadNonFatal ==
  \A r \in RunIds : run[r].thumbUpload = "failed" =>
    /\ run[r].failedAt # "upload-thumbnail"
    /\ Done(r) /\ run[r].mainUpload = "ok" /\ run[r].failedAt = "none" =>
         run[r].outcome = "record" /\ run[r].thumbnailUrl = Null

\* C7 (as claimed): when generateThumbnail yields no path, no thumbnail upload
\* is attempted and, the provider and the database being available, the run
\* ends with a record whose thumbnailUrl is null
C7_NoThumbnailNonFatal ==
  \A r \in RunIds : Done(r) /\ PastThumbnail(r) /\ run[r].thumbnailPath = Null =>
    /\ run[r].thumbUpload = "none"
    /\ providerUp /\ run[r].failedAt # "persist" =>
         run[r].outcome = "record" /\ run[r].thumbnailUrl = Null

\* C8: when the extraction fails, extractMetadata gives the empty object, the
\* run does not fail at inspection, goes on to thumbnail generation and, once
\* terminal, has attempted an upload
C8_MetadataFailureNonFatal ==
  \A r \in RunIds : Ran(r) /\ run[r].pc # "extract" /\ ExtractFails(r) =>
    /\ run[r].metadata = {}
    /\ run[r].failedAt # "inspect"
    /\ Done(r) => run[r].thumbUpload # "none" \/ run[r].mainUpload # "none"

C8_Witness == \E r \in RunIds : ExtractFails(r) /\ Done(r) /\ run[r].metadata = {}
                                /\ run[r].mainUpload # "none"

\* C9 (as claimed): a staged file declared neither image nor video is rejected
\* before inspection and is given no media kind
C9_UnsupportedKindRejected ==
  \A r \in RunIds : Ran(r) /\ fileTypeOf(files[r]) \notin {"image", "video"} =>
    Done(r) /\ run[r].failedAt = "unsupported" /\ run[r].mediaType = ""

\* C10 (as claimed): for an image or video file whose inspection and thumbnail
\* succeed and whose provider accepts uploads, the run ends with a record
\* carrying the url of the original and of the thumbnail
C10_PutReturnsUrls ==
  \A r \in RunIds :
    (/\ Done(r) /\ Ran(r) /\ providerUp
     /\ fileTypeOf(files[r]) \in {"image", "video"}
     /\ ~ExtractFails(r)
     /\ run[r].thumbnailPath # Null
     /\ run[r].failedAt # "persist")
    => run[r].outcome = "record" /\ run[r].url # Null /\ run[r].thumbnailUrl # Null

\* C11: the bulk response is sent only when every dispatched processFile run
\* is terminal; while a run of the batch is in flight no response exists
C11_ResponseAfterAllRuns ==
  mode = "bulk" =>
    /\ InFlight # {} => response = NoResponse /\ bulkPc # "responded"
    /\ Responded => \A r \in 1..nFiles : Done(r)

C11_Witness == Responded /\ nFiles > concurrencyLimit /\ \A r \in 1..nFiles : Done(r)

\* C12 (as claimed): over the life of a run its staged file is deleted exactly
\* once: a terminal run has made one unlink of the staged path and the path is
\* gone
C12_StagedDeletedOnce ==
  \A r \in RunIds : Done(r) /\ Ran(r) =>
    run[r].stagedUnlinks = 1 /\ StagedPath(r) \notin disk

\* the temporary paths a run inside generateThumbnail writes or renames
InGenerateThumbnail(r) == run[r].pc \in {"thumb", "shot", "rename"}
TempPaths(r) == {run[r].tp} \cup (IF run[r].mediaType = "video" THEN {ShotPath} ELSE {})

\* C13 (as claimed): two concurrent generateThumbnail calls never use the same
\* temporary path
C13_ThumbnailPathsDistinct ==
  \A r1, r2 \in RunIds :
    r1 # r2 /\ InGenerateThumbnail(r1) /\ InGenerateThumbnail(r2)
      => TempPaths(r1) \cap TempPaths(r2) = {}

\* C14 (as claimed): in a run the original's upload starts before the
\* thumbnail's, both come after inspection and thumbnail generation, and the
\* record is created only after both uploads
C14_StageOrder ==
  \A r \in RunIds :
    /\ run[r].thumbUpload # "none" => run[r].mainUpload # "none"
    /\ run[r].mainUpload # "none" => PastThumbnail(r)
    /\ (\E item \in db : item.file = r) =>
         run[r].mainUpload = "ok" /\ (run[r].thumbnailPath # Null => run[r].thumbUpload # "none")

(* ------------------------ properties: delete --------------------------- *)
Returned(c) == calls[c].pc = "returned"
ErrorCauses == {"No public ID provided", "provider error", "timed out"}
Requested(q) == {idToDelete(del[q].remote[j].publicId) : j \in 1..Len(del[q].remote)}

\* C15: a deleteFromCloudinary call that the provider answered, with 'ok' or
\* with 'not found', never ends in the error status: the error status comes
\* only from a missing id, a provider failure or the timer; so of two calls
\* on the same remote id neither reports an error for the object being gone
C15_DeleteTwiceSucceeds ==
  \A c \in DeleteIds : Returned(c) =>
    /\ calls[c].result = "error" => calls[c].message \in ErrorCauses
    /\ calls[c].message = "" => calls[c].result \in {"ok", "not found"}

C15_Witness ==
  \E c1, c2 \in DeleteIds :
    /\ c1 # c2 /\ Returned(c1) /\ Returned(c2)
    /\ calls[c1].id = calls[c2].id
    /\ calls[c1].result = "ok" /\ calls[c2].result = "not found"

\* C16: deleteFromCloudinary never throws: a call that ended on a missing id,
\* a provider error or the timeout returned the status 'error', and no
\* delete handler was left by an exception
C16_DeleteNeverRaises ==
  /\ \A c \in DeleteIds : Returned(c) =>
       ~calls[c].threw /\ (calls[c].message \in ErrorCauses => calls[c].result = "error")
  /\ \A q \in DeleteIds : del[q].status # 500
  /\ manyResponse # 500

C16_Witness ==
  \E c1, c2 \in DeleteIds :
    /\ Returned(c1) /\ calls[c1].message = "No public ID provided" /\ calls[c1].result = "error"
    /\ Returned(c2) /\ calls[c2].message = "provider error" /\ calls[c2].result = "error"

\* C17: every deleteFromCloudinary call that started the race returns
C17_DeleteCompletes ==
  \A c \in DeleteIds : (calls[c].pc = "racing") ~> Returned(c)

C17_Witness ==
  \E c \in DeleteIds : Returned(c) /\ calls[c].message = "timed out" /\ calls[c].result = "error"

\* C18 (as claimed): every ingestion run that started reaches its end
C18_EveryRunTerminates ==
  \A r \in RunIds : (run[r].pc = "extract") ~> Done(r)

\* C19: once a delete of a found item has finished, the row is gone and the
\* response is 200, whatever the remote calls returned; a bulk delete with a
\* valid ids array answers 200
C19_RowRemovedRegardless ==
  /\ \A q \in DeleteIds : del[q].pc = "done" /\ del[q].status # 404 =>
       /\ del[q].item \notin db
       /\ del[q].outcome = "fulfilled"
       /\ mode = "delete" => del[q].status = 200
  /\ manyPc = "responded" /\ manyResponse # 400 =>
       /\ manyResponse = 200
       /\ \A item \in db : \A j \in 1..Len(ids.elems) : ids.elems[j] # item.file

C19_Witness ==
  \E q \in DeleteIds :
    /\ del[q].pc = "done" /\ del[q].status # 404 /\ del[q].item \notin db
    /\ \E j \in 1..Len(del[q].remote) : del[q].remote[j].result = "error"
    /\ mode = "delete" => del[q].status = 200
    /\ mode = "deleteMany" => manyPc = "responded" /\ manyResponse = 200

\* C20 (as claimed): when the row of a found item is removed, Delete has
\* been invoked for the remote object of its original and of its thumbnail
C20_BothRemoteObjectsRequested ==
  \A q \in DeleteIds : del[q].pc = "done" /\ del[q].outcome = "fulfilled" =>
    {OrigId(del[q].id), ThumbId(del[q].id)} \subseteq Requested(q)

(* ---------------------- properties: inspection ------------------------- *)
Inspected(r) == Ran(r) /\ run[r].pc # "extract"

\* C21 (as claimed): for an image whose header decodes and whose EXIF parse
\* fails, extractMetadata returns width, height, format, size and aspectRatio
\* and no exif field
C21_ExifFailureKeepsDimensions ==
  \A r \in RunIds :
    Inspected(r) /\ run[r].mediaType = "image" /\ files[r].decodes /\ files[r].exif = "corrupt"
      => run[r].metadata = {"width", "height", "format", "size", "aspectRatio"}

\* C22 (as claimed): for a file declared as video without a video stream,
\* extractMetadata returns exactly format and size
C22_NoVideoStreamFormatAndSize ==
  \A r \in RunIds :
    Inspected(r) /\ run[r].mediaType = "video" /\ files[r].probe = "noVideo"
      => run[r].metadata = {"format", "size"}

(* --------------------- properties: URL parsing ------------------------- *)
\* the rule as stated: what follows the last 'upload' part, without the part
\* right after it and without the file extension
LastIndex(urlParts, part) ==
  CHOOSE j \in 1..Len(urlParts) :
    urlParts[j] = part /\ \A m \in (j + 1)..Len(urlParts) : urlParts[m] # part
DropExtension(fileName) ==
  IF Len(fileName) > 1 THEN SubSeq(fileName, 1, Len(fileName) - 1) ELSE fileName
StatedId(arg) ==
  IF startsWithHttp(arg)
  THEN SubSeq(arg, LastIndex(arg, <<"upload">>) + 2, Len(arg) - 1)
       \o <<DropExtension(arg[Len(arg)])>>
  ELSE arg

\* C23 (as claimed): the id a call hands to destroy is the stored id itself,
\* or, for a URL, the path after the upload marker and the version, without
\* the file extension
C23_IdFromUrl ==
  \A c \in DeleteIds :
    mode = "gateway" /\ calls[c].pc # "idle" /\ calls[c].arg # Undefined
      => calls[c].id = StatedId(calls[c].arg)

(* --------------------- properties: cancellation ------------------------ *)
\* C24 (as claimed): once the batch call is cancelled no further run is
\* dispatched
C24_NoDispatchAfterCancel ==
  [][cancelled => \A r \in RunIds : run[r].pc = "idle" => run'[r].pc = "idle"]_vars

(* ------------------- properties: the staged input ---------------------- *)
Staged(d) == {r \in RunIds : StagedPath(r) \in d}
InInspection(r) == run[r].pc \in {"extract", "thumb", "shot", "rename"}

\* C25: a step in which extractMetadata or generateThumbnail of some run
\* settles, with a result or with a failure, leaves every staged file of
\* every run on the disk; the paths these steps write are under /tmp
C25_StagedInputUntouched ==
  [][\A r \in RunIds : InInspection(r) /\ run'[r] # run[r] =>
       /\ Staged(disk') = Staged(disk)
       /\ \A p \in disk' \ disk : p[1] = "tmp"]_vars

C25_Witness ==
  \E r1, r2 \in RunIds :
    /\ PastThumbnail(r1) /\ run[r1].thumbnailPath # Null /\ StagedPath(r1) \in disk
    /\ PastThumbnail(r2) /\ run[r2].thumbnailPath = Null /\ StagedPath(r2) \in disk

(* ------------------- properties: replacing a file ---------------------- *)
\* the remote objects a stored record points to
Refs(doc) ==
  (IF Falsy(Field(doc, "publicId")) THEN {} ELSE {doc.publicId})
  \cup (IF Falsy(Field(doc, "featuredImage")) THEN {} ELSE {idToDelete(doc.featuredImage)})

ChunkOf(r) == (r - 1) \div concurrencyLimit

\* C28: a run of a later chunk has started only if every run of every
\* earlier chunk is terminal; only input files are dispatched; a run that has
\* started is never started again, and when the response is sent every input
\* file has been dispatched
C28_ChunkBarrier ==
  /\ [](mode = "bulk" =>
         /\ \A r1, r2 \in 1..nFiles :
              ChunkOf(r1) < ChunkOf(r2) /\ run[r2].pc # "idle" => Done(r1)
         /\ \A r \in RunIds : r > nFiles => run[r].pc = "idle"
         /\ Responded => \A r \in 1..nFiles : run[r].pc # "idle")
  /\ [][mode = "bulk" =>
         \A r \in RunIds : /\ run[r].pc # "idle" => run'[r].pc # "idle"
                           /\ Done(r) => run'[r] = run[r]]_vars

C28_Witness ==
  /\ mode = "bulk"
  /\ \E r2 \in 1..nFiles : ChunkOf(r2) = 1 /\ run[r2].pc \notin {"idle", "done"}
  /\ \E r1 \in 1..nFiles : ChunkOf(r1) = 0 /\ Done(r1) /\ run[r1].outcome = "null"

(* --------------------- properties: deleteProject ----------------------- *)
\* C29: a remote delete has been started only if the project's row is gone
\* and the 204 response was sent; the response is sent as soon as the
\* background task starts, whatever state its calls are in; a request that
\* ended in 404 or 500 started no remote delete; and a response once sent is
\* never changed by what the background task meets
C29_ProjectRowFirst ==
  /\ [](mode = "deleteProject" =>
         /\ (\E c \in DeleteIds : calls[c].pc # "idle") =>
              (\A doc \in db : doc.file # proj.id) /\ proj.status = 204
         /\ proj.background # "none" => proj.status = 204
         /\ proj.status \in {404, 500} => \A c \in DeleteIds : calls[c].pc = "idle")
  /\ [][proj.status # 0 => proj'.status = proj.status]_vars

C29_Witness ==
  /\ mode = "deleteProject" /\ proj.status = 204
  /\ \E c1, c2 \in DeleteIds :
       /\ calls[c1].pc = "racing"
       /\ calls[c2].pc = "returned" /\ calls[c2].result = "error"

(* ------------------- properties: handleUploadError --------------------- *)
\* every staged file the request records
AllStaged(req) ==
  (IF Falsy(req.file) THEN {} ELSE {req.file})
  \cup {req.files.elems[j] : j \in 1..Len(req.files.elems)}

\* C30: handleUploadError calls next exactly once; without an upload error
\* the call has no argument and no unlink is requested; with an upload error
\* the call carries an error and an unlink was requested for every staged
\* file of the request
C30_NextExactlyOnce ==
  \A q \in UploadIds : mw[q].pc = "called" =>
    /\ Len(mw[q].nexts) = 1
    /\ mw[q].err = NoError => mw[q].nexts[1] = NoError /\ mw[q].requested = {}
    /\ mw[q].err # NoError => mw[q].nexts[1] # NoError /\ mw[q].requested = AllStaged(mw[q].req)

C30_Witness ==
  \E q \in UploadIds :
    /\ mw[q].pc = "called" /\ mw[q].err = "LIMIT_FILE_COUNT"
    /\ Cardinality(mw[q].requested) >= 2
    /\ mw[q].unlinks = {} /\ AllStaged(mw[q].req) \cap disk = {}

====
